---- MODULE Spec2Model ----
(***************************************************************************)
(* Model of games/tic_tac_toe/sdk.py:                                      *)
(*   - timeout_run / __proccess_wrapper : one bounded call of a target     *)
(*     function in a worker process, result passed back through a          *)
(*     Manager().dict() mailbox;                                           *)
(*   - GameEngineStats : the per-player / per-parameter stats table;       *)
(*   - GameEngineClient / RedisClient : the session controller publishing  *)
(*     envelopes on the channel "game_engine_notifications".               *)
(* SpecInvoker runs one call of timeout_run against every target           *)
(* behaviour (FairInvoker adds the fairness of the caller and the clock);  *)
(* SpecStats runs every sequence of GameEngineStats calls, and             *)
(* SpecStatsHistory does the same while keeping the history of one entry;  *)
(* SpecClient runs every sequence of GameEngineClient calls against a      *)
(* broker that goes down and comes back.                                   *)
(***************************************************************************)
EXTENDS Integers, Sequences, FiniteSets, TLC

VARIABLES
    \* ---- timeout_run ----
    timeout,      \* argument `timeout` (clock ticks)
    target,       \* what the target function does when called
    pc,           \* position of the caller inside timeout_run
    now,          \* wall clock, ticks since timeout_run was entered
    manager,      \* the Manager() server process: "none", "up", "down"
    return_dict,  \* the manager.dict() mailbox, held by the manager process
    snapshot,     \* the local dict being built by dict(return_dict)
    thread,       \* position of the worker process in __proccess_wrapper
    held,         \* the worker's local value: the return value or the caught e
    sigterm,      \* SIGTERM sent to the worker and not yet delivered
    callEnd,      \* clock value at which the target call returned or raised
    outcome,      \* what the caller of timeout_run observes
    \* ---- GameEngineStats ----
    params,       \* self.__params
    players,      \* self.__players
    watch,        \* history: one entry <<player, param>>, any one, followed below
    base,         \* history: its value at its last set_value / set_params
    added,        \* history: the sum of the add_value deltas to it since then
    ret,          \* the last GameEngineStats call and what it returned or raised
    \* ---- GameEngineClient / RedisClient ----
    clock,        \* time.time(), in milliseconds
    start_time,   \* self.__start_time, in milliseconds
    redis,        \* the broker behind self.__redis: "up" or "down"
    channel,      \* the messages on "game_engine_notifications", in order
    calls,        \* history: the GameEngineClient calls made and how each ended
    attempts      \* history: the number of calls of self.__redis.publish

invokerVars == <<timeout, target, pc, now, manager, return_dict, snapshot,
                 thread, held, sigterm, callEnd, outcome>>
statsVars == <<params, players, watch, base, added, ret>>
clientVars == <<clock, start_time, redis, channel, calls, attempts>>
vars == <<invokerVars, statsVars, clientVars>>

----------------------------------------------------------------------------
(* Bounds *)
MaxTimeout == 2
MaxTime == MaxTimeout + 1

(* Python values, all modelled as strings *)
None == "None"
Unset == "unset"                     \* key not yet stored / not yet read
Values == {None, "v1"}               \* what a target may return
Exceptions == {"ValueError", "TimeoutError"}   \* subclasses of Exception
BaseOnly == {"SystemExit"}           \* BaseException but not Exception
NoTime == 0 - 1

Targets ==
    [kind : {"return"}, val : Values]
    \cup [kind : {"raise"}, val : Exceptions \cup BaseOnly]
    \cup [kind : {"hang"}, val : {None}]

NoOutcome == [kind |-> "none", val |-> None, via |-> "none"]

(* bool(x) as used by `if not return_dict['finished']` and                 *)
(* `if return_dict['exception']`: None and False are falsy, an exception   *)
(* instance is truthy.                                                     *)
Truthy(x) == x \notin {None, "False", Unset}

Alive == thread \in {"calling", "store_result", "store_exception",
                     "store_finished", "exiting"}

----------------------------------------------------------------------------
(* timeout_run, the caller's side.  Every access to return_dict is one      *)
(* request to the manager process, so each is one step.                    *)

InitInvoker ==
    /\ timeout \in 0..MaxTimeout
    /\ target \in Targets
    /\ pc = "entry"
    /\ now = 0
    /\ manager = "none"
    /\ return_dict = [result |-> Unset, exception |-> Unset, finished |-> Unset]
    /\ snapshot = [result |-> Unset, exception |-> Unset, finished |-> Unset]
    /\ thread = "unborn"
    /\ held = None
    /\ sigterm = FALSE
    /\ callEnd = NoTime
    /\ outcome = NoOutcome

(* with Manager() as manager: return_dict = manager.dict(); three stores *)
CreateMailbox ==
    /\ pc = "entry"
    /\ manager' = "up"
    /\ return_dict' = [result |-> None, exception |-> None, finished |-> "False"]
    /\ pc' = "start"
    /\ UNCHANGED <<clientVars, statsVars,
                   timeout, target, now, snapshot, thread, held, sigterm,
                   callEnd, outcome>>

(* thread = Process(...); thread.start() *)
Start ==
    /\ pc = "start"
    /\ thread' = "calling"
    /\ pc' = "join"
    /\ UNCHANGED <<clientVars, statsVars,
                   timeout, target, now, manager, return_dict, snapshot, held,
                   sigterm, callEnd, outcome>>

(* thread.join(timeout=timeout) returns because the worker process ended *)
JoinWorkerEnded ==
    /\ pc = "join"
    /\ ~Alive
    /\ pc' = "terminate"
    /\ UNCHANGED <<clientVars, statsVars,
                   timeout, target, now, manager, return_dict, snapshot,
                   thread, held, sigterm, callEnd, outcome>>

(* a join() given no timeout never gives up *)
JoinNeverExpires == FALSE

(* thread.join(timeout=timeout) returns because the timeout has passed *)
JoinExpiredGuard == now >= timeout

JoinExpired ==
    /\ pc = "join"
    /\ JoinExpiredGuard
    /\ pc' = "terminate"
    /\ UNCHANGED <<clientVars, statsVars,
                   timeout, target, now, manager, return_dict, snapshot,
                   thread, held, sigterm, callEnd, outcome>>

(* An exception raised in the caller while it waits in join (Ctrl-C):     *)
(* it leaves the with block, which shuts the manager down, and leaves     *)
(* timeout_run; thread.terminate() on the next line is not reached.       *)
JoinInterrupted ==
    /\ pc = "join"
    /\ manager' = "down"
    /\ outcome' = [kind |-> "raise", val |-> "KeyboardInterrupt", via |-> "caller"]
    /\ pc' = "raised"
    /\ UNCHANGED <<clientVars, statsVars,
                   timeout, target, now, return_dict, snapshot, thread, held,
                   sigterm, callEnd>>

(* thread.terminate(): sends SIGTERM and returns; nothing to do for a     *)
(* worker that has ended.                                                 *)
Terminate ==
    /\ pc = "terminate"
    /\ sigterm' = Alive
    /\ pc' = "keys"
    /\ UNCHANGED <<clientVars, statsVars,
                   timeout, target, now, manager, return_dict, snapshot,
                   thread, held, callEnd, outcome>>

(* return_dict = dict(return_dict): the proxy's keys(), then one          *)
(* __getitem__ request per key, in insertion order.                       *)
SnapshotKeys ==
    /\ pc = "keys"
    /\ pc' = "get_result"
    /\ UNCHANGED <<clientVars, statsVars,
                   timeout, target, now, manager, return_dict, snapshot,
                   thread, held, sigterm, callEnd, outcome>>

GetResult ==
    /\ pc = "get_result"
    /\ snapshot' = [snapshot EXCEPT !.result = return_dict.result]
    /\ pc' = "get_exception"
    /\ UNCHANGED <<clientVars, statsVars,
                   timeout, target, now, manager, return_dict, thread, held,
                   sigterm, callEnd, outcome>>

GetException ==
    /\ pc = "get_exception"
    /\ snapshot' = [snapshot EXCEPT !.exception = return_dict.exception]
    /\ pc' = "get_finished"
    /\ UNCHANGED <<clientVars, statsVars,
                   timeout, target, now, manager, return_dict, thread, held,
                   sigterm, callEnd, outcome>>

GetFinished ==
    /\ pc = "get_finished"
    /\ snapshot' = [snapshot EXCEPT !.finished = return_dict.finished]
    /\ pc' = "exit_with"
    /\ UNCHANGED <<clientVars, statsVars,
                   timeout, target, now, manager, return_dict, thread, held,
                   sigterm, callEnd, outcome>>

(* leaving the with block: the manager process is shut down *)
ExitWith ==
    /\ pc = "exit_with"
    /\ manager' = "down"
    /\ pc' = "decide"
    /\ UNCHANGED <<clientVars, statsVars,
                   timeout, target, now, return_dict, snapshot, thread, held,
                   sigterm, callEnd, outcome>>

(* lines 188-194 on the local dict d *)
Decision(d) ==
    IF ~Truthy(d.finished)
    THEN [kind |-> "raise", val |-> "TimeoutError", via |-> "timeout"]
    ELSE IF Truthy(d.exception)
         THEN [kind |-> "raise", val |-> d.exception, via |-> "exception"]
         ELSE [kind |-> "return", val |-> d.result, via |-> "result"]

Decide ==
    /\ pc = "decide"
    /\ outcome' = Decision(snapshot)
    /\ pc' = IF Decision(snapshot).kind = "raise" THEN "raised" ELSE "returned"
    /\ UNCHANGED <<clientVars, statsVars,
                   timeout, target, now, manager, return_dict, snapshot,
                   thread, held, sigterm, callEnd>>

Done == pc \in {"returned", "raised"}

----------------------------------------------------------------------------
(* __proccess_wrapper, the worker process.  It runs while it is alive,     *)
(* also after SIGTERM was sent and before it is delivered.                 *)

(* the call getattr(module, function_name) of args returns *)
CallReturns ==
    /\ thread = "calling"
    /\ target.kind = "return"
    /\ held' = target.val
    /\ callEnd' = now
    /\ thread' = "store_result"
    /\ UNCHANGED <<clientVars, statsVars,
                   timeout, target, pc, now, manager, return_dict,
                   snapshot, sigterm, outcome>>

(* ... or raises: `except Exception` catches subclasses of Exception;     *)
(* anything else leaves __proccess_wrapper and ends the process.          *)
CallRaises ==
    /\ thread = "calling"
    /\ target.kind = "raise"
    /\ callEnd' = now
    /\ IF target.val \in Exceptions
       THEN held' = target.val /\ thread' = "store_exception"
       ELSE held' = held /\ thread' = "crashed"
    /\ UNCHANGED <<clientVars, statsVars,
                   timeout, target, pc, now, manager, return_dict,
                   snapshot, sigterm, outcome>>

(* return_dict['result'] = <value>; with the manager gone the store       *)
(* raises a connection error inside the try block.                        *)
StoreResult ==
    /\ thread = "store_result"
    /\ IF manager = "up"
       THEN /\ return_dict' = [return_dict EXCEPT !.result = held]
            /\ thread' = "store_finished"
            /\ held' = held
       ELSE /\ return_dict' = return_dict
            /\ thread' = "store_exception"
            /\ held' = "ConnectionError"
    /\ UNCHANGED <<clientVars, statsVars,
                   timeout, target, pc, now, manager, snapshot,
                   sigterm, callEnd, outcome>>

(* return_dict['exception'] = e; with the manager gone the store raises   *)
(* outside any try block.                                                 *)
StoreException ==
    /\ thread = "store_exception"
    /\ IF manager = "up"
       THEN /\ return_dict' = [return_dict EXCEPT !.exception = held]
            /\ thread' = "store_finished"
       ELSE /\ return_dict' = return_dict
            /\ thread' = "crashed"
    /\ UNCHANGED <<clientVars, statsVars,
                   timeout, target, pc, now, manager, snapshot,
                   held, sigterm, callEnd, outcome>>

(* return_dict['finished'] = True *)
StoreFinished ==
    /\ thread = "store_finished"
    /\ IF manager = "up"
       THEN /\ return_dict' = [return_dict EXCEPT !.finished = "True"]
            /\ thread' = "exiting"
       ELSE /\ return_dict' = return_dict
            /\ thread' = "crashed"
    /\ UNCHANGED <<clientVars, statsVars,
                   timeout, target, pc, now, manager, snapshot,
                   held, sigterm, callEnd, outcome>>

(* __proccess_wrapper returns and the process ends *)
WorkerExits ==
    /\ thread = "exiting"
    /\ thread' = "exited"
    /\ UNCHANGED <<clientVars, statsVars,
                   timeout, target, pc, now, manager, return_dict,
                   snapshot, held, sigterm, callEnd, outcome>>

(* the SIGTERM of thread.terminate() reaches the worker *)
SigtermDelivered ==
    /\ sigterm
    /\ Alive
    /\ thread' = "killed"
    /\ sigterm' = FALSE
    /\ UNCHANGED <<clientVars, statsVars,
                   timeout, target, pc, now, manager, return_dict,
                   snapshot, held, callEnd, outcome>>

(* wall-clock time passes while timeout_run is running *)
Tick ==
    /\ pc \notin {"entry", "returned", "raised"}
    /\ now < MaxTime
    /\ now' = now + 1
    /\ UNCHANGED <<clientVars, statsVars,
                   timeout, target, pc, manager, return_dict,
                   snapshot, thread, held, sigterm, callEnd, outcome>>

CallerStep ==
    \/ CreateMailbox \/ Start \/ JoinWorkerEnded \/ JoinExpired \/ Terminate
    \/ SnapshotKeys \/ GetResult \/ GetException \/ GetFinished \/ ExitWith
    \/ Decide

NextInvoker ==
    \/ CreateMailbox
    \/ Start
    \/ JoinWorkerEnded
    \/ JoinExpired
    \/ JoinInterrupted
    \/ Terminate
    \/ SnapshotKeys
    \/ GetResult
    \/ GetException
    \/ GetFinished
    \/ ExitWith
    \/ Decide
    \/ CallReturns
    \/ CallRaises
    \/ StoreResult
    \/ StoreException
    \/ StoreFinished
    \/ WorkerExits
    \/ SigtermDelivered
    \/ Tick

----------------------------------------------------------------------------
(* GameEngineStats *)

(* the session: teams in session order, each with its players in order *)
Teams ==
    << [id |-> "t1", name |-> "T1", players |-> <<"p1", "p2">>],
       [id |-> "t2", name |-> "T2", players |-> <<"p3">>] >>

Range(s) == {s[i] : i \in 1..Len(s)}
PlayerIds == UNION {Range(Teams[t].players) : t \in 1..Len(Teams)}
PlayerName(p) == p

(* parameter names, and the lists a caller declares; "c" is never declared *)
Names == {"a", "b", "c"}
ParamLists == {<< >>, <<"a">>, <<"b", "a">>, <<"a", "a">>}

(* values written and deltas added; the values are kept in 0..MaxValue *)
MaxValue == 1
SetValues == 0..MaxValue
Deltas == {0 - 1, 1}

(* what a call hands back; arg keeps the list given to set_params *)
Returned(op) ==
    [op |-> op, kind |-> "none", val |-> 0, rows |-> << >>, arg |-> << >>]
ReturnedFrom(op, arg) ==
    [op |-> op, kind |-> "none", val |-> 0, rows |-> << >>, arg |-> arg]
ReturnedRows(op, rows) ==
    [op |-> op, kind |-> "rows", val |-> 0, rows |-> rows, arg |-> << >>]
Raised(op) ==
    [op |-> op, kind |-> "TypeError", val |-> 0, rows |-> << >>, arg |-> << >>]

(* self.__players = {} *)
EmptyTable == [p \in {} |-> 0]

(* a set_params that keeps the value of an entry that exists already *)
set_params_keeping(tbl, prms) ==
    [p \in PlayerIds |->
        [n \in Range(prms) |->
            IF p \in DOMAIN tbl /\ n \in DOMAIN tbl[p] THEN tbl[p][n] ELSE 0]]

(* set_params: the table after the loop over teams and players *)
set_params(tbl, prms) ==
    [p \in PlayerIds |-> [n \in Range(prms) |-> 0]]

(* a set_value without the `if param in self.__params` *)
set_value_unguarded(tbl, prms, p, param, value) ==
    [tbl EXCEPT ![p] = [n \in DOMAIN tbl[p] \cup {param} |->
                           IF n = param THEN value ELSE tbl[p][n]]]

(* a set_value writing into one dict that all players share *)
set_value_shared(tbl, prms, p, param, value) ==
    IF param \in Range(prms)
    THEN [q \in DOMAIN tbl |-> [tbl[q] EXCEPT ![param] = value]]
    ELSE tbl

(* set_value: the table afterwards *)
set_value(tbl, prms, p, param, value) ==
    IF param \in Range(prms)
    THEN [tbl EXCEPT ![p][param] = value]
    ELSE tbl

(* a get_value that answers 0 for a name it does not know *)
get_value_zero(tbl, prms, p, param) ==
    IF param \in Range(prms)
    THEN [kind |-> "int", val |-> tbl[p][param]]
    ELSE [kind |-> "int", val |-> 0]

(* get_value: the value, or None when control falls off the end *)
get_value(tbl, prms, p, param) ==
    IF param \in Range(prms)
    THEN [kind |-> "int", val |-> tbl[p][param]]
    ELSE [kind |-> "none", val |-> 0]

(* an add_value whose sum with the absent value goes through *)
add_value_silent(tbl, prms, p, param) == FALSE

(* add_value: get_value(...) + value raises TypeError on None; otherwise  *)
(* the table after set_value                                              *)
add_value_raises(tbl, prms, p, param) ==
    get_value(tbl, prms, p, param).kind = "none"

(* an add_value that stores the delta instead of the sum *)
add_value_overwrite(tbl, prms, p, param, value) ==
    IF add_value_raises(tbl, prms, p, param)
    THEN tbl
    ELSE set_value(tbl, prms, p, param, value)

add_value(tbl, prms, p, param, value) ==
    IF add_value_raises(tbl, prms, p, param)
    THEN tbl
    ELSE set_value(tbl, prms, p, param,
                   get_value(tbl, prms, p, param).val + value)

(* get_table *)
RECURSIVE SumOver(_, _, _)
SumOver(tbl, ids, param) ==
    IF ids = << >> THEN 0
    ELSE tbl[Head(ids)][param] + SumOver(tbl, Tail(ids), param)

(* a header whose first column is the empty string *)
HeaderRowEmptyFirst(prms) ==
    [type |-> "header", label |-> "", names |-> prms, cols |-> << >>]

(* the header: cols is the one-space string followed by the names; label *)
(* is the first column and names are the columns after it                *)
HeaderRow(prms) ==
    [type |-> "header", label |-> " ", names |-> prms, cols |-> << >>]

SubheaderRow(tbl, prms, team) ==
    [type |-> "subheader", label |-> team.name, names |-> << >>,
     cols |-> [i \in 1..Len(prms) |-> SumOver(tbl, team.players, prms[i])]]

PlayerRow(tbl, prms, p) ==
    [type |-> "row", label |-> PlayerName(p), names |-> << >>,
     cols |-> [i \in 1..Len(prms) |-> 0 + tbl[p][prms[i]]]]

(* a get_table that gives every team a subheader *)
TeamRowsAlwaysSum(tbl, prms, team) ==
    <<SubheaderRow(tbl, prms, team)>>
    \o [j \in 1..Len(team.players) |-> PlayerRow(tbl, prms, team.players[j])]

TeamRows(tbl, prms, team) ==
    (IF Len(team.players) > 1 THEN <<SubheaderRow(tbl, prms, team)>> ELSE << >>)
    \o [j \in 1..Len(team.players) |-> PlayerRow(tbl, prms, team.players[j])]

RECURSIVE RowsOf(_, _, _)
RowsOf(tbl, prms, teams) ==
    IF teams = << >> THEN << >>
    ELSE TeamRows(tbl, prms, Head(teams)) \o RowsOf(tbl, prms, Tail(teams))

get_table(tbl, prms) == <<HeaderRow(prms)>> \o RowsOf(tbl, prms, Teams)

(* GameEngineStats(teams, params): __init__ ends with set_params(params). *)
(* The history variables follow one entry picked from `watched`.          *)
NoWatch == <<"-", "-">>

InitStats(watched) ==
    /\ params \in ParamLists
    /\ players = set_params(EmptyTable, params)
    /\ watch \in watched
    /\ base = 0
    /\ added = 0
    /\ ret = Returned("__init__")

Watched(p, param) == watch = <<p, param>> /\ param \in Range(params)

SetParamsCall(names) ==
    /\ params' = names
    /\ players' = set_params(players, names)
    /\ base' = 0
    /\ added' = 0
    /\ ret' = ReturnedFrom("set_params", names)
    /\ UNCHANGED <<clientVars, invokerVars, watch>>

SetValueCall(p, param, value) ==
    /\ players' = set_value(players, params, p, param, value)
    /\ base' = IF Watched(p, param) THEN value ELSE base
    /\ added' = IF Watched(p, param) THEN 0 ELSE added
    /\ ret' = Returned("set_value")
    /\ UNCHANGED <<clientVars, invokerVars, params, watch>>

GetValueCall(p, param) ==
    /\ ret' = [op |-> "get_value",
               kind |-> get_value(players, params, p, param).kind,
               val |-> get_value(players, params, p, param).val,
               rows |-> << >>, arg |-> << >>]
    /\ UNCHANGED <<clientVars, invokerVars, params, players, watch, base,
                   added>>

AddValueCall(p, param, value) ==
    /\ param \in Range(params) => players[p][param] + value \in 0..MaxValue
    /\ players' = add_value(players, params, p, param, value)
    /\ added' = IF Watched(p, param) THEN added + value ELSE added
    /\ ret' = IF add_value_raises(players, params, p, param)
              THEN Raised("add_value")
              ELSE Returned("add_value")
    /\ UNCHANGED <<clientVars, invokerVars, params, watch, base>>

SetParams == \E names \in ParamLists : SetParamsCall(names)

SetValue ==
    \E p \in PlayerIds, param \in Names, value \in SetValues :
        SetValueCall(p, param, value)

GetValue == \E p \in PlayerIds, param \in Names : GetValueCall(p, param)

AddValue ==
    \E p \in PlayerIds, param \in Names, value \in Deltas :
        AddValueCall(p, param, value)

GetTable ==
    /\ ret' = ReturnedRows("get_table", get_table(players, params))
    /\ UNCHANGED <<clientVars, invokerVars, params, players, watch, base,
                   added>>

NextStats ==
    \/ SetParams
    \/ SetValue
    \/ GetValue
    \/ AddValue
    \/ GetTable

----------------------------------------------------------------------------
(* GameEngineClient and RedisClient *)

(* self.session_id, from the session description *)
SessionId == "s1"

(* time.time() is read in milliseconds.  The clock moves in steps of      *)
(* TickMillis and reads Epoch when the client is constructed; every       *)
(* difference of two readings is a multiple of TickMillis.                *)
TickMillis == 6
Epoch == 12
MaxTicks == 2
MaxClock == Epoch + MaxTicks * TickMillis

(* the number of GameEngineClient calls followed *)
MaxCalls == 2

(* the time that passes inside start() between its two clock readings *)
Lags == {0, TickMillis}

(* arguments of the calls.  A dict is the sequence of its key/value       *)
(* pairs; Unserializable is a frame json.dumps has no encoding for; NoArg *)
(* marks an argument a call does not have, or a key a dict does not have. *)
NoArg == "-"
Unserializable == "set()"
Events == {"turn"}
Descriptions == {<< >>, << <<"k", "v">> >>}
Frames == {"f1", Unserializable}

(* the `data` of a message: the dict of send_event, a frame, or a table *)
EventData(event, description) ==
    [type |-> event, description |-> description, frame |-> NoArg,
     rows |-> << >>]
FrameData(frame) ==
    [type |-> NoArg, description |-> << >>, frame |-> frame, rows |-> << >>]
TableData(rows) ==
    [type |-> NoArg, description |-> << >>, frame |-> NoArg, rows |-> rows]

(* round(elapsed_time, 2): seconds with two decimals, that is the nearest *)
(* hundredth of a second; no multiple of TickMillis lies half-way.        *)
round2(ms) == (ms + 5) \div 10

(* json.dumps raises TypeError on a value it cannot encode *)
dumps_raises(data) == data.frame = Unserializable

(* RedisClient.__pack_message *)
pack_message(type, data, elapsed_time) ==
    [session_id |-> SessionId, data |-> data, type |-> type,
     elapsed |-> round2(elapsed_time)]

(* a publish that answers normally whatever the broker does *)
publish_never_raises(r) == FALSE

(* self.__redis.publish raises ConnectionError when the broker is down *)
publish_raises(r) == r = "down"

(* a broker that puts the newest message first *)
publish_in_front(ch, message) == <<message>> \o ch

(* ... and otherwise the message is the next one on the channel *)
publish(ch, message) == Append(ch, message)

(* the entry of `calls` for one call; kind is how the call ended *)
Call(op, event, description, frame, team) ==
    [op |-> op, event |-> event, description |-> description,
     frame |-> frame, team |-> team, broker |-> redis, kind |-> "none"]

(* RedisClient.send_message: pack, then one publish; an exception of      *)
(* either leaves through the caller.                                      *)
send_message(call, type, elapsed_time, data) ==
    IF dumps_raises(data)
    THEN /\ channel' = channel
         /\ attempts' = attempts
         /\ calls' = Append(calls, [call EXCEPT !.kind = "TypeError"])
    ELSE /\ attempts' = attempts + 1
         /\ IF publish_raises(redis)
            THEN /\ channel' = channel
                 /\ calls' = Append(calls,
                                    [call EXCEPT !.kind = "ConnectionError"])
            ELSE /\ channel' = publish(channel,
                                       pack_message(type, data, elapsed_time))
                 /\ calls' = Append(calls, call)

(* GameEngineClient.__elapsed, with time.time() = t and __start_time = st *)
elapsed(t, st) == t - st

(* a send_event that publishes the event name as the message type *)
send_event_flat(call, event, description, t, st) ==
    send_message(call, event, elapsed(t, st), EventData(event, description))

(* GameEngineClient.send_event *)
send_event(call, event, description, t, st) ==
    send_message(call, "event", elapsed(t, st), EventData(event, description))

(* a start() that publishes before it records the timestamp *)
start_time_in_send_old(old, new) == old

(* start(): the __start_time that __elapsed reads inside send_event is    *)
(* the one assigned on the line before                                    *)
start_time_in_send(old, new) == new

(* GameEngineClient(): __start_time is 0; Redis() connects on first use *)
InitClient ==
    /\ clock = Epoch
    /\ start_time = 0
    /\ redis \in {"up", "down"}
    /\ channel = << >>
    /\ calls = << >>
    /\ attempts = 0

SendEventCall(event, description) ==
    /\ Len(calls) < MaxCalls
    /\ send_event(Call("send_event", event, description, NoArg, NoArg),
                  event, description, clock, start_time)
    /\ UNCHANGED <<invokerVars, statsVars, clock, start_time, redis>>

SetWinnerCall(team) ==
    /\ Len(calls) < MaxCalls
    /\ send_event(Call("set_winner", NoArg, << >>, NoArg, team.id),
                  "winner", << <<"team_id", team.id>> >>, clock, start_time)
    /\ UNCHANGED <<invokerVars, statsVars, clock, start_time, redis>>

StartCall(lag) ==
    /\ Len(calls) < MaxCalls
    /\ clock + lag <= MaxClock
    /\ start_time' = clock
    /\ clock' = clock + lag
    /\ send_event(Call("start", NoArg, << >>, NoArg, NoArg),
                  "started", << >>, clock + lag,
                  start_time_in_send(start_time, clock))
    /\ UNCHANGED <<invokerVars, statsVars, redis>>

EndCall ==
    /\ Len(calls) < MaxCalls
    /\ send_event(Call("end", NoArg, << >>, NoArg, NoArg),
                  "ended", << >>, clock, start_time)
    /\ UNCHANGED <<invokerVars, statsVars, clock, start_time, redis>>

SendFrameCall(frame) ==
    /\ Len(calls) < MaxCalls
    /\ send_message(Call("send_frame", NoArg, << >>, frame, NoArg),
                    "frame", elapsed(clock, start_time), FrameData(frame))
    /\ UNCHANGED <<invokerVars, statsVars, clock, start_time, redis>>

SendStatsCall ==
    /\ Len(calls) < MaxCalls
    /\ send_message(Call("send_stats", NoArg, << >>, NoArg, NoArg),
                    "stats", elapsed(clock, start_time),
                    TableData(get_table(players, params)))
    /\ UNCHANGED <<invokerVars, statsVars, clock, start_time, redis>>

SendEvent ==
    \E event \in Events, description \in Descriptions :
        SendEventCall(event, description)

SetWinner == \E team \in Range(Teams) : SetWinnerCall(team)

StartSession == \E lag \in Lags : StartCall(lag)

EndSession == EndCall

SendFrame == \E frame \in Frames : SendFrameCall(frame)

SendStats == SendStatsCall

(* time passes between two calls *)
ClockTick ==
    /\ clock + TickMillis <= MaxClock
    /\ clock' = clock + TickMillis
    /\ UNCHANGED <<invokerVars, statsVars, start_time, redis, channel, calls,
                   attempts>>

(* the broker becomes unreachable, and reachable again *)
RedisGoesDown ==
    /\ redis = "up"
    /\ redis' = "down"
    /\ UNCHANGED <<invokerVars, statsVars, clock, start_time, channel, calls,
                   attempts>>

RedisComesUp ==
    /\ redis = "down"
    /\ redis' = "up"
    /\ UNCHANGED <<invokerVars, statsVars, clock, start_time, channel, calls,
                   attempts>>

NextClient ==
    \/ SendEvent
    \/ SetWinner
    \/ StartSession
    \/ EndSession
    \/ SendFrame
    \/ SendStats
    \/ ClockTick
    \/ RedisGoesDown
    \/ RedisComesUp

----------------------------------------------------------------------------
(* The specifications.  Each holds the other components at rest.           *)

InvokerAtRest ==
    /\ InitInvoker
    /\ timeout = 0
    /\ target = [kind |-> "hang", val |-> None]

StatsAtRest ==
    /\ InitStats({NoWatch})
    /\ params = << >>

ClientAtRest ==
    /\ InitClient
    /\ redis = "up"

(* the stats object handed to send_stats *)
StatsToSend ==
    /\ InitStats({NoWatch})
    /\ params = <<"b", "a">>

InitInvokerSpec == InitInvoker /\ StatsAtRest /\ ClientAtRest

SpecInvoker == InitInvokerSpec /\ [][NextInvoker]_vars

(* The caller's own steps are always taken, and time passes; the worker   *)
(* is under no obligation to make progress.                               *)
FairInvoker ==
    /\ SpecInvoker
    /\ WF_vars(CallerStep)
    /\ WF_vars(Tick)

InitStatsSpec == InitStats({NoWatch}) /\ InvokerAtRest /\ ClientAtRest

SpecStats == InitStatsSpec /\ [][NextStats]_vars

(* the same calls, with the history of one entry, any one, kept *)
InitStatsHistorySpec ==
    InitStats(PlayerIds \X {"a", "b"}) /\ InvokerAtRest /\ ClientAtRest

SpecStatsHistory == InitStatsHistorySpec /\ [][NextStats]_vars

InitClientSpec == InitClient /\ InvokerAtRest /\ StatsToSend

SpecClient == InitClientSpec /\ [][NextClient]_vars

----------------------------------------------------------------------------
(* Claims about timeout_run *)

(* what the caller sees, what the target did, and the timeout signal *)
Observed == <<outcome.kind, outcome.val>>
Actual == <<target.kind, target.val>>
TimedOut == <<"raise", "TimeoutError">>
Decided == Done /\ outcome.via # "caller"

(* C1, as claimed: when the target call ends at D <= T the caller gets    *)
(* the target's own result or error, and when it ends at D > T (or never) *)
(* the caller gets TimedOut, in every interleaving.  The clock is         *)
(* discrete: a call that ends in the very tick of the timeout is left to  *)
(* either side.                                                           *)
C1_ResultIffInTime ==
    Decided =>
        /\ (callEnd # NoTime /\ callEnd < timeout) => Observed = Actual
        /\ (callEnd = NoTime \/ callEnd > timeout) => Observed = TimedOut

(* C2, as claimed: the caller sees the timeout signal only if the         *)
(* completion flag it read was unset, and an outcome that re-raises the   *)
(* worker's error never looks like the timeout signal.                    *)
C2_TimeoutDistinct ==
    Decided =>
        /\ Observed = TimedOut => snapshot.finished # "True"
        /\ outcome.via = "exception" => Observed # TimedOut

(* C3, as claimed: whenever timeout_run has returned or raised, on any    *)
(* exit path, the worker process is no longer alive.                      *)
C3_NoWorkerLeft == Done => ~Alive

(* C4, as claimed: the call ends in exactly one of TimedOut, Failure,     *)
(* Success: flag unset gives TimedOut; flag set with an error recorded in *)
(* the mailbox gives Failure with that same error; flag set with no error *)
(* gives Success with exactly the value the target returned.              *)
C4_OutcomeFromMailbox ==
    Decided =>
        /\ outcome.via \in {"timeout", "exception", "result"}
        /\ snapshot.finished # "True" => Observed = TimedOut
        /\ (snapshot.finished = "True" /\ return_dict.exception # None) =>
               /\ outcome.via = "exception"
               /\ Observed = <<"raise", return_dict.exception>>
        /\ (snapshot.finished = "True" /\ return_dict.exception = None) =>
               /\ outcome.via = "result"
               /\ Observed = <<"return", target.val>>

(* C5: timeout_run always comes back to its caller, whatever the target   *)
(* does; a target that never returns ends in TimedOut.                    *)
C5_AlwaysReturns == <>Done

C5_Witness ==
    Done /\ target.kind = "hang" /\ outcome.via = "timeout" /\ now <= timeout + 1

----------------------------------------------------------------------------
(* Claims about GameEngineStats *)

IntValue(v) == [kind |-> "int", val |-> v]
Absent == [kind |-> "none", val |-> 0]
Cells == PlayerIds \X Names

(* C6: after construction and after any sequence of calls, every player   *)
(* of every team has an entry, and its keys are exactly the declared      *)
(* parameters.                                                            *)
C6_EntriesMatchParams ==
    /\ DOMAIN players = PlayerIds
    /\ \A p \in PlayerIds : DOMAIN players[p] = Range(params)

C6_Witness ==
    /\ ret.op = "set_value"
    /\ params = <<"b", "a">>
    /\ players["p3"]["a"] = 1
    /\ players["p1"]["b"] = 1

(* C7: right after set_params(names) the declared parameters are exactly  *)
(* names, every player reads 0 for each of them, and every other name is  *)
(* undeclared, whatever was in the table before.                          *)
C7_SetParamsResets ==
    ret.op = "set_params" =>
        /\ Range(params) = Range(ret.arg)
        /\ \A p \in PlayerIds : DOMAIN players[p] = Range(ret.arg)
        /\ \A p \in PlayerIds, n \in Names :
               get_value(players, params, p, n) =
                   IF n \in Range(ret.arg) THEN IntValue(0) ELSE Absent

C7_Witness ==
    /\ ret.op = "set_params"
    /\ ret.arg = <<"b", "a">>
    /\ \A p \in PlayerIds : players[p]["a"] = 0 /\ players[p]["b"] = 0

(* what one set_value(p, a, v) step on a declared parameter must do *)
C8_SetValueStep(p, a, v) ==
    (SetValueCall(p, a, v) /\ a \in Range(params)) =>
        /\ params' = params
        /\ get_value(players', params', p, a) = IntValue(v)
        /\ \A c \in Cells \ {<<p, a>>} :
               get_value(players', params', c[1], c[2]) =
                   get_value(players, params, c[1], c[2])

(* C8: for a declared parameter, set_value(p, a, v) makes get_value(p, a) *)
(* give v and leaves every other entry of the table, and the declared     *)
(* parameters, as they were.                                              *)
C8_SetThenGet ==
    [][ret'.op = "set_value" =>
           \A p \in PlayerIds, a \in Names, v \in SetValues :
               C8_SetValueStep(p, a, v)]_vars

C8_Witness ==
    /\ ret.op = "set_value"
    /\ params = <<"b", "a">>
    /\ players["p1"]["a"] = 1
    /\ players["p1"]["b"] = 0
    /\ players["p2"]["a"] = 0

(* what one set_value or get_value step on an undeclared name must do *)
C9_UnknownStep(p, a) ==
    a \notin Range(params) =>
        /\ \A v \in SetValues :
               SetValueCall(p, a, v) =>
                   /\ players' = players
                   /\ params' = params
                   /\ ret'.kind = "none"
        /\ GetValueCall(p, a) =>
               /\ players' = players
               /\ params' = params
               /\ ret'.kind = "none"

(* C9: for an undeclared name, set_value returns without an error and     *)
(* changes nothing in the table, and get_value returns the absent value   *)
(* (None, not 0) without an error.                                        *)
C9_UnknownParamSilent ==
    [][ret'.op \in {"set_value", "get_value"} =>
           \A p \in PlayerIds, a \in Names : C9_UnknownStep(p, a)]_vars

C9_Witness ==
    /\ ret.op = "get_value"
    /\ ret.kind = "none"
    /\ params = <<"b", "a">>
    /\ \E p \in PlayerIds : players[p]["a"] # 0

(* what one add_value(p, a, d) step on a declared parameter must do *)
C10_AddValueStep(p, a, d) ==
    (AddValueCall(p, a, d) /\ a \in Range(params)) =>
        /\ params' = params
        /\ get_value(players', params', p, a) =
               IntValue(get_value(players, params, p, a).val + d)
        /\ \A c \in Cells \ {<<p, a>>} :
               get_value(players', params', c[1], c[2]) =
                   get_value(players, params, c[1], c[2])

(* the followed entry is its base value plus the deltas added since *)
C10_SumOfDeltas ==
    watch[2] \in Range(params) => players[watch[1]][watch[2]] = base + added

(* C10: for a declared parameter, add_value(p, a, d) makes get_value(p,a) *)
(* its previous value plus d and changes no other entry; and the value of *)
(* an entry is always its value at its last set_value or set_params plus  *)
(* the sum of the deltas added since.                                     *)
C10_AddAccumulates ==
    [][/\ ret'.op = "add_value" =>
              \A d \in Deltas : C10_AddValueStep(watch[1], watch[2], d)
       /\ C10_SumOfDeltas']_vars

C10_Witness ==
    /\ ret.op = "add_value"
    /\ ret.kind = "none"
    /\ watch[2] \in Range(params)
    /\ base # 0
    /\ added # 0
    /\ players[watch[1]][watch[2]] = base + added

(* what one add_value(p, a, d) step on an undeclared name must do *)
C11_AddUnknownStep(p, a, d) ==
    (AddValueCall(p, a, d) /\ a \notin Range(params)) =>
        /\ ret'.kind = "TypeError"
        /\ players' = players
        /\ params' = params
        /\ a \notin DOMAIN players'[p]
        /\ get_table(players', params') = get_table(players, params)

(* C11: add_value on an undeclared name ends in an error raised to the    *)
(* caller, not in a silent return; no value is stored under that name and *)
(* the table, and what get_table renders from it, stay as they were.      *)
C11_AddUnknownRaises ==
    [][ret'.op = "add_value" =>
           \A p \in PlayerIds, a \in Names, d \in Deltas :
               C11_AddUnknownStep(p, a, d)]_vars

C11_Witness ==
    /\ ret.op = "add_value"
    /\ ret.kind = "TypeError"
    /\ params = <<"b", "a">>
    /\ players["p2"]["a"] = 1
    /\ "c" \notin DOMAIN players["p2"]

(* the rows one team contributes, and the index of the last row before   *)
(* the rows of team t                                                    *)
C12_Size(t) ==
    Len(Teams[t].players) + (IF Len(Teams[t].players) > 1 THEN 1 ELSE 0)

RECURSIVE C12_Offset(_)
C12_Offset(t) == IF t = 1 THEN 1 ELSE C12_Offset(t - 1) + C12_Size(t - 1)

(* the sum of one parameter over the first n players of a team *)
RECURSIVE C12_Sum(_, _, _)
C12_Sum(team, n, a) ==
    IF n = 0 THEN 0 ELSE C12_Sum(team, n - 1, a) + players[team.players[n]][a]

(* C12: get_table gives the header row first, then the teams in session  *)
(* order; a team has a subheader row exactly when it has more than one   *)
(* player, placed right before its player rows and holding, per declared *)
(* parameter in declaration order, the sum over the team's players; then *)
(* one row per player in session order with the player's current values. *)
C12_TableLayout ==
    ret.op = "get_table" =>
        /\ Len(ret.rows) = C12_Offset(Len(Teams) + 1)
        /\ ret.rows[1].type = "header"
        /\ \A t \in 1..Len(Teams) :
               LET team == Teams[t]
                   n == Len(team.players)
                   at == C12_Offset(t)
                   sub == IF n > 1 THEN 1 ELSE 0
               IN  /\ n > 1 =>
                          /\ ret.rows[at + 1].type = "subheader"
                          /\ ret.rows[at + 1].label = team.name
                          /\ ret.rows[at + 1].cols =
                                 [i \in 1..Len(params) |->
                                     C12_Sum(team, n, params[i])]
                   /\ \A j \in 1..n :
                          /\ ret.rows[at + sub + j].type = "row"
                          /\ ret.rows[at + sub + j].label =
                                 PlayerName(team.players[j])
                          /\ ret.rows[at + sub + j].cols =
                                 [i \in 1..Len(params) |->
                                     players[team.players[j]][params[i]]]
        /\ \A k \in 1..Len(ret.rows) :
               ret.rows[k].type = "subheader" =>
                   \E t \in 1..Len(Teams) :
                       Len(Teams[t].players) > 1 /\ k = C12_Offset(t) + 1

C12_Witness ==
    /\ ret.op = "get_table"
    /\ params = <<"b", "a">>
    /\ Len(ret.rows) = 5
    /\ ret.rows[2].type = "subheader"
    /\ ret.rows[2].cols = <<0, 2>>
    /\ ret.rows[4].cols = <<0, 1>>
    /\ ret.rows[5].type = "row"
    /\ ret.rows[5].cols = <<1, 0>>

(* C13, as claimed: the header row of the rendered table has as columns  *)
(* the empty string followed by the declared parameter names in          *)
(* declaration order.                                                    *)
C13_HeaderEmptyString ==
    ret.op = "get_table" =>
        /\ ret.rows[1].type = "header"
        /\ ret.rows[1].label = ""
        /\ ret.rows[1].names = params

(* C13, amended: the header row of the rendered table has as columns the *)
(* one-space string " " followed by the declared parameter names in      *)
(* declaration order.                                                    *)
C13_HeaderOneSpace ==
    ret.op = "get_table" =>
        /\ ret.rows[1].type = "header"
        /\ ret.rows[1].label = " "
        /\ ret.rows[1].names = params

C13_Witness ==
    /\ ret.op = "get_table"
    /\ params = <<"a">>
    /\ ret.rows[1].type = "header"
    /\ ret.rows[1].label = " "
    /\ ret.rows[1].names = <<"a">>

----------------------------------------------------------------------------
(* Claims about GameEngineClient *)

(* the calls that returned to their caller, in call order *)
ReturnedCalls == SelectSeq(calls, LAMBDA c : c.kind = "none")
LastCall == calls[Len(calls)]
LastMessage == channel[Len(channel)]
Called == calls' # calls

(* message e is of the kind call c publishes, with the argument of c *)
C14_IsFrom(e, c) ==
    CASE c.op = "send_event" -> e.type = "event" /\ e.data.type = c.event
      [] c.op = "set_winner" -> e.type = "event" /\ e.data.type = "winner"
      [] c.op = "start" -> e.type = "event" /\ e.data.type = "started"
      [] c.op = "end" -> e.type = "event" /\ e.data.type = "ended"
      [] c.op = "send_frame" -> e.type = "frame" /\ e.data.frame = c.frame
      [] c.op = "send_stats" -> e.type = "stats"

(* C14: the messages on the channel are, one for one and in the same     *)
(* order, the publishing calls the client made and that returned: no     *)
(* message is missing, doubled, merged with another or out of place.     *)
C14_ChannelInCallOrder ==
    /\ Len(channel) = Len(ReturnedCalls)
    /\ \A i \in 1..Len(channel) : C14_IsFrom(channel[i], ReturnedCalls[i])

C14_Witness ==
    /\ Len(channel) = 2
    /\ calls[1].op = "send_frame"
    /\ calls[2].op = "set_winner"
    /\ channel[1].type = "frame"
    /\ channel[2].type = "event"
    /\ channel[2].data.type = "winner"

(* the messages published since the first start() *)
C15_Started == \E k \in 1..Len(calls) : calls[k].op = "start"
C15_FirstStart ==
    CHOOSE k \in 1..Len(calls) :
        calls[k].op = "start" /\ \A j \in 1..(k - 1) : calls[j].op # "start"
C15_SinceStart ==
    Cardinality({i \in C15_FirstStart..Len(calls) : calls[i].kind = "none"})
C15_Monotone ==
    C15_Started =>
        \A i, j \in (Len(channel) - C15_SinceStart + 1)..Len(channel) :
            i < j => channel[i].elapsed <= channel[j].elapsed

(* C15, as claimed: once start() has set the start timestamp no later    *)
(* call, another start() included, changes it, and the elapsed values of *)
(* the messages published since the first start() never decrease.       *)
C15_StartTimeSetOnce ==
    [][/\ start_time # 0 => start_time' = start_time
       /\ C15_Monotone']_vars

(* C16: every message carries the client's session_id and one of the     *)
(* types event, frame, stats; and the message of the call that has just  *)
(* returned is: for send_event(name, desc) an event with data            *)
(* {type: name, description: desc}; for set_winner(team) the event       *)
(* winner with description {team_id: team.id}; for start and end the     *)
(* events started and ended; for send_frame(frame) a frame with the      *)
(* frame as data; for send_stats(stats) a stats message with the         *)
(* rendered table as data.                                               *)
C16_EnvelopeContents ==
    /\ \A i \in 1..Len(channel) :
           /\ channel[i].session_id = SessionId
           /\ channel[i].type \in {"event", "frame", "stats"}
    /\ (calls # << >> /\ LastCall.kind = "none") =>
           CASE LastCall.op = "send_event" ->
                    /\ LastMessage.type = "event"
                    /\ LastMessage.data =
                           EventData(LastCall.event, LastCall.description)
             [] LastCall.op = "set_winner" ->
                    /\ LastMessage.type = "event"
                    /\ LastMessage.data =
                           EventData("winner",
                                     << <<"team_id", LastCall.team>> >>)
             [] LastCall.op = "start" ->
                    /\ LastMessage.type = "event"
                    /\ LastMessage.data = EventData("started", << >>)
             [] LastCall.op = "end" ->
                    /\ LastMessage.type = "event"
                    /\ LastMessage.data = EventData("ended", << >>)
             [] LastCall.op = "send_frame" ->
                    /\ LastMessage.type = "frame"
                    /\ LastMessage.data = FrameData(LastCall.frame)
             [] LastCall.op = "send_stats" ->
                    /\ LastMessage.type = "stats"
                    /\ LastMessage.data =
                           TableData(get_table(players, params))

C16_Witness ==
    /\ Len(channel) = 2
    /\ calls[1].op = "set_winner"
    /\ channel[1].data.description = << <<"team_id", "t2">> >>
    /\ calls[2].op = "send_stats"
    /\ channel[2].type = "stats"
    /\ Len(channel[2].data.rows) = 5
    /\ channel[2].data.rows[1].names = <<"b", "a">>

(* C17: a call that finds the broker down when it publishes ends in the  *)
(* error, raised out of that same call, after exactly one publish; the   *)
(* channel is as before; nothing reaches the channel or is published     *)
(* between calls, and a later call adds its own message only.            *)
C17_PublishFailureRaised ==
    [][/\ (Called /\ LastCall'.broker = "down"
                  /\ LastCall'.frame # Unserializable) =>
              /\ LastCall'.kind = "ConnectionError"
              /\ attempts' = attempts + 1
              /\ channel' = channel
       /\ ~Called => (channel' = channel /\ attempts' = attempts)
       /\ (Called /\ LastCall'.kind = "none") =>
              /\ attempts' = attempts + 1
              /\ Len(channel') = Len(channel) + 1]_vars

C17_Witness ==
    /\ Len(calls) = 2
    /\ calls[1].op = "send_frame"
    /\ calls[1].kind = "ConnectionError"
    /\ calls[2].op = "end"
    /\ calls[2].kind = "none"
    /\ attempts = 2
    /\ Len(channel) = 1
    /\ channel[1].data.type = "ended"

(* C18: start() takes the start timestamp from the clock during this     *)
(* same call, and the elapsed of the started message it publishes is the *)
(* publishing time minus that new timestamp, never minus the timestamp   *)
(* there was before.                                                     *)
C18_StartedFromNewTimestamp ==
    [][(Called /\ LastCall'.op = "start") =>
           /\ start_time' >= clock
           /\ start_time' <= clock'
           /\ LastCall'.kind = "none" =>
                  /\ LastMessage'.data.type = "started"
                  /\ LastMessage'.elapsed = round2(clock' - start_time')
                  /\ LastMessage'.elapsed <= round2(TickMillis)]_vars

C18_Witness ==
    /\ Len(calls) = 2
    /\ calls[1].op = "start"
    /\ calls[2].op = "start"
    /\ calls[2].kind = "none"
    /\ start_time = Epoch + 2 * TickMillis
    /\ clock = start_time
    /\ LastMessage.data.type = "started"
    /\ LastMessage.elapsed = 0

----------------------------------------------------------------------------
(* Further claims about timeout_run *)

(* the caller is inside dict(return_dict); the worker has a store ahead *)
Reading == pc \in {"keys", "get_result", "get_exception", "get_finished"}
Writing == thread \in {"store_result", "store_exception", "store_finished"}

(* C19, as claimed: once the worker has been started only the worker     *)
(* writes the mailbox, and the caller never reads the mailbox in a state *)
(* in which the worker is still able to write to it.                     *)
C19_NoReadWhileWorkerWrites ==
    [][/\ (pc \notin {"entry", "start"} /\ return_dict' # return_dict) =>
              Writing
       /\ ~(Reading' /\ Writing')]_vars

(* C20, as claimed: a snapshot with the completion flag set holds the    *)
(* worker's final result or error, so a Success or Failure is never      *)
(* built from a mailbox the worker had written only in part; and a       *)
(* worker ended before it set the flag is reported as TimedOut.          *)
C20_FlagMeansComplete ==
    Decided =>
        /\ snapshot.finished = "True" =>
               /\ target.kind = "return" =>
                      (snapshot.result = target.val /\ snapshot.exception = None)
               /\ target.kind = "raise" => snapshot.exception = target.val
        /\ outcome.via \in {"result", "exception"} =>
               snapshot.finished = "True"
        /\ (thread = "killed" /\ return_dict.finished # "True") =>
               Observed = TimedOut

====
